---- MODULE Spec2Model ----
(***************************************************************************)
(* mem-cli: the entry store (db.json), the secret vault (vault.json) and   *)
(* the command handlers add / find / get / edit / delete of the            *)
(* command-line program, one action per command invocation.                *)
(*                                                                         *)
(* Strings the program inspects (content, tag lists, id arguments, search  *)
(* patterns, date terms) are sequences of one-character strings, so that   *)
(* trim, split, parseInt and the regular expression are computed.          *)
(***************************************************************************)
EXTENDS Integers, Sequences, FiniteSets, TLC

VARIABLES
    dbFile,     \* db.json: the persisted sequence of entries
    vaultFile,  \* vault.json: the persisted secrets, key string -> blob
    entries,    \* db.data.entries of the process that ran the last command
    secrets,    \* vault.data.secrets of the process that ran the last command
    clock,      \* the current instant, in half days (UTC)
    lastOp,     \* the last command: its arguments, how it ended, what it showed
    freedMax,   \* history: ids whose latest deletion removed the maximum id
    freedNotMax,\* history: ids whose latest deletion removed a non-maximum id
    reads,      \* history: id -> the gets that showed the entry since it was added
    pending     \* the write a running command has still to do, and the files before it

vars ==
    <<dbFile, vaultFile, entries, secrets, clock, lastOp, freedMax, freedNotMax, reads,
      pending>>

stores == <<dbFile, vaultFile, entries, secrets>>

(***************************************************************************)
(* Bounds of the model.                                                    *)
(***************************************************************************)
MaxEntries == 3      \* add is not taken on a store of this many entries
MaxId == 103         \* add is not taken when the next id would exceed this
MaxUsage == 2        \* get is not taken on an entry read this many times
MaxTicks == 2        \* half days the clock may advance
MaxBlobLen == 7      \* hex runs and colons in a blob handed to decrypt
MaxFindEntries == 2  \* when searching, add is not taken on a store of this many entries

(***************************************************************************)
(* Strings.                                                                *)
(***************************************************************************)
IsSpace(c) == c = " "

RECURSIVE TrimStart(_)
TrimStart(s) ==
    IF s # <<>> /\ IsSpace(Head(s)) THEN TrimStart(Tail(s)) ELSE s

RECURSIVE TrimEnd(_)
TrimEnd(s) ==
    IF s # <<>> /\ IsSpace(s[Len(s)]) THEN TrimEnd(SubSeq(s, 1, Len(s) - 1)) ELSE s

\* String.prototype.trim
Trim(s) == TrimEnd(TrimStart(s))

\* String.prototype.split(sep) for a one-character separator: "" gives [""],
\* "a,b" gives ["a","b"], "," gives ["",""].
RECURSIVE Split(_, _)
Split(s, sep) ==
    IF \A i \in 1..Len(s) : s[i] # sep
    THEN <<s>>
    ELSE LET i == CHOOSE k \in 1..Len(s) :
                      s[k] = sep /\ \A m \in 1..(k - 1) : s[m] # sep
         IN  <<SubSeq(s, 1, i - 1)>> \o Split(SubSeq(s, i + 1, Len(s)), sep)

Digits == <<"0", "1", "2", "3", "4", "5", "6", "7", "8", "9">>

IsDigit(c) == \E d \in 1..10 : Digits[d] = c

DigitVal(c) == (CHOOSE d \in 1..10 : Digits[d] = c) - 1

RECURSIVE DigitsVal(_)
DigitsVal(s) ==
    IF s = <<>> THEN 0
    ELSE 10 * DigitsVal(SubSeq(s, 1, Len(s) - 1)) + DigitVal(s[Len(s)])

RECURSIVE DigitPrefix(_)
DigitPrefix(s) ==
    IF s # <<>> /\ IsDigit(Head(s)) THEN <<Head(s)>> \o DigitPrefix(Tail(s)) ELSE <<>>

NaN == [nan |-> TRUE, n |-> 0]

Num(n) == [nan |-> FALSE, n |-> n]

\* parseInt(s) without radix, for arguments that carry no sign and no 0x
\* prefix: leading white space is skipped, the longest prefix of decimal
\* digits is the value, anything after it is ignored, no digit gives NaN.
ParseInt(s) ==
    LET d == DigitPrefix(TrimStart(s))
    IN  IF d = <<>> THEN NaN ELSE Num(DigitsVal(d))

\* e.id === parseInt(id)
StrictEq(id, p) == ~p.nan /\ p.n = id

RECURSIVE ToStr(_)
\* String(n) of a non-negative integer: the key a number is stored under
ToStr(n) ==
    IF n < 10 THEN <<Digits[n + 1]>> ELSE ToStr(n \div 10) \o <<Digits[(n % 10) + 1]>>

(***************************************************************************)
(* The translator.  translate() returns a Translator object; the handlers  *)
(* use it as t.get(key) in some places and call it as t(key) in others.    *)
(***************************************************************************)
\* typeof t === "function": t is an instance of class Translator
TIsCallable == FALSE

\* t(key) throws TypeError ("t is not a function") unless t is callable
TCallThrows == ~TIsCallable

(***************************************************************************)
(* Crypto.  A blob is a sequence of tokens: runs of hex digits and colons. *)
(* The hex of a cipher text stands for AES-256-CBC of pt under the key     *)
(* scrypt(pw, s) and the initialisation vector n.                          *)
(***************************************************************************)
Colon == [kind |-> "colon", n |-> 0, pw |-> "", s |-> 0, pt |-> <<>>]

HexBytes(n) == [kind |-> "bytes", n |-> n, pw |-> "", s |-> 0, pt |-> <<>>]

HexCipher(pw, salt, iv, text) ==
    [kind |-> "cipher", n |-> iv, pw |-> pw, s |-> salt, pt |-> text]

\* encrypt(text, password), with the two crypto.randomBytes(16) results
encrypt(text, password, salt, iv) ==
    <<HexBytes(salt), Colon, HexBytes(iv), Colon, HexCipher(password, salt, iv, text)>>

Null == [null |-> TRUE, text |-> <<>>]

Text(s) == [null |-> FALSE, text |-> s]

\* what a wrong key leaves when the last block happens to end in valid padding
Garbage == <<"?">>

\* vault.data.secrets[id]: undefined when the key is absent
Lookup(sec, key) ==
    IF key \in DOMAIN sec THEN [defined |-> TRUE, blob |-> sec[key]]
    ELSE [defined |-> FALSE, blob |-> <<>>]

\* decrypt(encryptedData, password).  padOk: whether the padding check of
\* decipher.final passes although the key or the iv is not the one used.
decrypt(rec, password, padOk) ==
    IF ~rec.defined THEN Null                      \* undefined.split throws
    \* const [saltHex, ivHex, encryptedText] = ...: the fields after the third
    \* are dropped
    ELSE LET f == Split(rec.blob, Colon)
         IN  IF Len(f) < 3 THEN Null               \* ivHex or encryptedText undefined
             \* createDecipheriv throws unless the iv is 16 bytes, one run
             ELSE IF Len(f[2]) # 1 THEN Null
             \* decipher.final throws on an empty cipher text
             ELSE IF f[3] = <<>> THEN Null
             ELSE LET ct == f[3][1]
                  IN  IF /\ Len(f[3]) = 1 /\ ct.kind = "cipher"
                         /\ ct.pw = password
                         /\ f[1] = <<HexBytes(ct.s)>>
                         /\ f[2] = <<HexBytes(ct.n)>>
                      THEN Text(ct.pt)
                      ELSE IF padOk THEN Text(Garbage) ELSE Null

\* !decrypted
Falsy(r) == r.null \/ r.text = <<>>

(***************************************************************************)
(* The entry store.                                                        *)
(***************************************************************************)
Sentinel ==
    <<"*", "*", "*", " ", "E", "N", "C", "R", "Y", "P", "T", "E", "D", " ", "*", "*", "*">>

Ids(es) == {es[i].id : i \in 1..Len(es)}

MaxOf(S) == CHOOSE m \in S : \A x \in S : x <= m

getNextIdByCount(es) ==
    100 + Len(es)

getNextIdFillsGap(es) ==
    CHOOSE n \in 100..(100 + Len(es)) :
        n \notin Ids(es) /\ \A m \in 100..(n - 1) : m \in Ids(es)

\* getNextId, on the loaded entries
getNextId(es) ==
    IF Len(es) = 0 THEN 100 ELSE MaxOf(Ids(es)) + 1

\* new Date().toISOString(): the UTC day and half day of the instant
ToISO(t) == [utcDay |-> t \div 2, utcHalf |-> t % 2]

\* new Date(isoString)
FromISO(iso) == 2 * iso.utcDay + iso.utcHalf

\* options.tags ? options.tags.split(",").map((t) => t.trim()) : []
AddTags(tagsArg) ==
    IF tagsArg = <<>> THEN <<>>
    ELSE LET f == Split(tagsArg, ",") IN [i \in 1..Len(f) |-> Trim(f[i])]

\* !content || content.trim() === ""   (an absent [text] argument is undefined)
ContentMissing(text) == ~text.given \/ text.s = <<>> \/ Trim(text.s) = <<>>

Op(op, idArg, password, outcome, threw) ==
    [op |-> op, idArg |-> idArg, password |-> password, outcome |-> outcome,
     threw |-> threw, shown |-> <<>>, results |-> <<>>, newId |-> 0, reuse |-> "no",
     query |-> <<>>, date |-> [given |-> FALSE, s |-> <<>>], table |-> <<>>,
     content |-> <<>>, tagsArg |-> <<>>, blob |-> [defined |-> FALSE, blob |-> <<>>]]

EmptyVault == [k \in {} |-> <<>>]

\* vault.data.secrets[key] = blob
Put(sec, key, blob) ==
    [k \in DOMAIN sec \cup {key} |-> IF k = key THEN blob ELSE sec[k]]

\* delete vault.data.secrets[key]
Remove(sec, key) == [k \in DOMAIN sec \ {key} |-> sec[k]]

\* db.data.entries.find / findIndex ((e) => e.id === parseInt(id)): 0 when absent
FindIndex(es, idArg) ==
    IF \E i \in 1..Len(es) : StrictEq(es[i].id, ParseInt(idArg))
    THEN CHOOSE i \in 1..Len(es) :
             /\ StrictEq(es[i].id, ParseInt(idArg))
             /\ \A j \in 1..(i - 1) : ~StrictEq(es[j].id, ParseInt(idArg))
    ELSE 0


(***************************************************************************)
(* Dates.  An instant is a number of half days since 1970-01-01T00:00Z;    *)
(* the local time zone is twelve hours ahead of UTC.                       *)
(***************************************************************************)
\* the local calendar day of an instant, as a day number
LocalDay(t) == (t + 1) \div 2

IsLeap(y) == (y % 4 = 0 /\ y % 100 # 0) \/ y % 400 = 0

DaysInMonth(y, m) ==
    IF m = 2 THEN (IF IsLeap(y) THEN 29 ELSE 28)
    ELSE IF m \in {4, 6, 9, 11} THEN 30 ELSE 31

\* the day number of a calendar date (days since 1970-01-01)
DaysFromCivil(y, m, d) ==
    LET yy == IF m <= 2 THEN y - 1 ELSE y
        era == yy \div 400
        yoe == yy - era * 400
        mp == (m + 9) % 12
        doy == (153 * mp + 2) \div 5 + d - 1
        doe == yoe * 365 + yoe \div 4 - yoe \div 100 + doy
    IN  era * 146097 + doe - 719468

\* the first command runs on 2026-02-10, at noon local time
ClockStart == 2 * DaysFromCivil(2026, 2, 10)

UpperCase == <<"A", "B", "C", "D", "E", "F", "G", "H", "I", "J", "K", "L", "M", "N", "O", "P", "Q", "R", "S", "T", "U", "V", "W", "X", "Y", "Z">>

LowerCase == <<"a", "b", "c", "d", "e", "f", "g", "h", "i", "j", "k", "l", "m", "n", "o", "p", "q", "r", "s", "t", "u", "v", "w", "x", "y", "z">>

\* one character of String.prototype.toLowerCase, and of the regex flag "i"
Lower(c) ==
    IF \E k \in 1..26 : UpperCase[k] = c
    THEN LowerCase[CHOOSE k \in 1..26 : UpperCase[k] = c]
    ELSE c

ToLowerCase(s) == [k \in 1..Len(s) |-> Lower(s[k])]

todayTerms == {<<"t", "o", "d", "a", "y">>,
               <<"h", "e", "u", "t", "e">>,
               <<"o", "g", "g", "i">>,
               <<"h", "o", "y">>,
               <<"a", "u", "j", "o", "u", "r", "d", "'", "h", "u", "i">>}

yesterdayTerms == {<<"y", "e", "s", "t", "e", "r", "d", "a", "y">>,
                   <<"g", "e", "s", "t", "e", "r", "n">>,
                   <<"i", "e", "r", "i">>,
                   <<"a", "y", "e", "r">>,
                   <<"h", "i", "e", "r">>}

NoDate == [valid |-> FALSE, day |-> 0]

Day(n) == [valid |-> TRUE, day |-> n]

AllDigits(s) == s # <<>> /\ \A k \in 1..Len(s) : IsDigit(s[k])

\* the date of three numeric fields, Invalid Date when a field is not a number
\* of the token's width or the calendar has no such day
CivilDate(ys, ms, ds) ==
    IF AllDigits(ys) /\ AllDigits(ms) /\ AllDigits(ds)
       /\ Len(ys) <= 4 /\ Len(ms) <= 2 /\ Len(ds) <= 2
    THEN LET y == DigitsVal(ys)
             m == DigitsVal(ms)
             d == DigitsVal(ds)
         IN  IF m \in 1..12 /\ d >= 1 /\ d <= DaysInMonth(y, m)
             THEN Day(DaysFromCivil(y, m, d)) ELSE NoDate
    ELSE NoDate

\* startOfDay(parse(dateStr, fmt, new Date())) for fmt "yyyy-MM-dd" and "dd.MM.yyyy"
ParseFormat(dateStr, fmt) ==
    IF fmt = "yyyy-MM-dd"
    THEN LET f == Split(dateStr, "-")
         IN  IF Len(f) = 3 THEN CivilDate(f[1], f[2], f[3]) ELSE NoDate
    ELSE LET f == Split(dateStr, ".")
         IN  IF Len(f) = 3 THEN CivilDate(f[3], f[2], f[1]) ELSE NoDate

\* parseSearchDate(dateStr) at the instant now; NoDate stands for null
parseSearchDate(dateStr, now) ==
    LET today == LocalDay(now)
        input == ToLowerCase(dateStr)
    IN  IF input \in todayTerms THEN Day(today)
        ELSE IF input \in yesterdayTerms THEN Day(today - 1)
        ELSE IF ParseFormat(dateStr, "yyyy-MM-dd").valid
             THEN ParseFormat(dateStr, "yyyy-MM-dd")
        ELSE IF ParseFormat(dateStr, "dd.MM.yyyy").valid
             THEN ParseFormat(dateStr, "dd.MM.yyyy")
        ELSE NoDate

\* options.date ? parseSearchDate(options.date) : null
FilterDate(date, now) ==
    IF date.given /\ date.s # <<>> THEN parseSearchDate(date.s, now) ELSE NoDate

\* isSameDay(new Date(e.timestamp), filterDate)
isSameDay(timestamp, day) == LocalDay(FromISO(timestamp)) = day

(***************************************************************************)
(* The search pattern.  Patterns are made of letters, spaces, ".", "*" and *)
(* "(": a "(" is never closed, so the RegExp constructor throws on it.     *)
(***************************************************************************)
\* query.replace(/\*/g, ".*")
RECURSIVE RegexSource(_)
RegexSource(q) ==
    IF q = <<>> THEN <<>>
    ELSE (IF Head(q) = "*" THEN <<".", "*">> ELSE <<Head(q)>>) \o RegexSource(Tail(q))

\* new RegExp(source, "i") throws SyntaxError: unterminated group, or nothing to repeat
RegexThrows(src) ==
    \/ \E k \in 1..Len(src) : src[k] = "("
    \/ src # <<>> /\ src[1] = "*"
    \/ \E k \in 1..(Len(src) - 1) : src[k] = "*" /\ src[k + 1] = "*"

\* the atoms of a source: a character or ".", each with or without a "*"
RECURSIVE Atoms(_)
Atoms(src) ==
    IF src = <<>> THEN <<>>
    ELSE IF Len(src) >= 2 /\ src[2] = "*"
         THEN <<[c |-> src[1], star |-> TRUE]>> \o Atoms(SubSeq(src, 3, Len(src)))
         ELSE <<[c |-> src[1], star |-> FALSE]>> \o Atoms(Tail(src))

\* an atom against a character, both lower-cased beforehand
CharMatch(a, c) == a = "." \/ a = c

\* whether atoms k.. match a prefix of s starting at position j
RECURSIVE MatchHere(_, _, _, _)
MatchHere(atoms, k, s, j) ==
    IF k > Len(atoms) THEN TRUE
    ELSE IF atoms[k].star
         THEN \E n \in 0..(Len(s) - j + 1) :
                  /\ \A m \in j..(j + n - 1) : CharMatch(atoms[k].c, s[m])
                  /\ MatchHere(atoms, k + 1, s, j + n)
         ELSE /\ j <= Len(s)
              /\ CharMatch(atoms[k].c, s[j])
              /\ MatchHere(atoms, k + 1, s, j + 1)

\* regex.test(s): the pattern matches somewhere in s
RegexTest(src, s) ==
    LET atoms == Atoms(ToLowerCase(src))
        ls == ToLowerCase(s)
    IN  \E j \in 1..(Len(s) + 1) : MatchHere(atoms, 1, ls, j)

\* regex.test(e.content) || e.tags.some((t) => regex.test(t))
matchText(src, e) ==
    RegexTest(src, e.content) \/ \E k \in 1..Len(e.tags) : RegexTest(src, e.tags[k])

\* matchDate: true without a filter date
matchDate(filterDate, e) ==
    IF filterDate.valid THEN isSameDay(e.timestamp, filterDate.day) ELSE TRUE

(***************************************************************************)
(* Inputs of the commands.                                                 *)
(***************************************************************************)
Given(s) == [given |-> TRUE, s |-> s]

Absent == [given |-> FALSE, s |-> <<>>]

\* [text] of add: absent, "", " ", " a "
AddTexts == {Absent, Given(<<>>), Given(<<" ">>), Given(<<" ", "a", " ">>)}

\* --tags of add: " x,y"
AddTagArgs == {<<" ", "x", ",", "y">>}

\* what is typed at a password prompt
Passwords == {"p", "q"}

\* what is typed at the password prompt of add
AddPasswords == {"p"}

\* <id> of get, edit and delete: "100" .. "102", "100z", "z"
IdArgs ==
    {<<"1", "0", "0">>, <<"1", "0", "1">>, <<"1", "0", "2">>,
     <<"1", "0", "0", "z">>, <<"z">>}

\* what crypto.randomBytes(16) may return
Salts == {1}

IVs == {1}

\* the answers typed at the prompts of edit
EditContents == {<<>>, <<"c", " ">>}

EditTagArgs == {<<>>, <<"y", ",", " ", "y">>}

(***************************************************************************)
(* Every command is one run of the program: it loads db.json and           *)
(* vault.json (JSONFilePreset), runs one handler and exits.                *)
(***************************************************************************)
EmptyReads == [i \in {} |-> 0]

\* no command is running
Idle == [op |-> "none", id |-> 0, text |-> Absent, tagsArg |-> <<>>, idArg |-> <<>>,
         password |-> "", dbBefore |-> <<>>, vaultBefore |-> EmptyVault]

Init ==
    /\ dbFile = <<>>
    /\ vaultFile = EmptyVault
    /\ entries = <<>>
    /\ secrets = EmptyVault
    /\ clock = ClockStart
    /\ lastOp = Op("none", <<>>, "", "ok", FALSE)
    /\ freedMax = {}
    /\ freedNotMax = {}
    /\ reads = EmptyReads
    /\ pending = Idle

\* the handler returns, or throws, before it changes or writes anything
Abort(op) ==
    /\ entries' = dbFile
    /\ secrets' = vaultFile
    /\ UNCHANGED <<dbFile, vaultFile, clock, freedMax, freedNotMax, reads, pending>>
    /\ lastOp' = op

AbortAfterPush(op) ==
    /\ entries' = Append(dbFile, [id |-> getNextId(dbFile), content |-> <<>>, tags |-> <<>>,
                                  timestamp |-> ToISO(clock), encrypted |-> FALSE,
                                  usageCount |-> 0])
    /\ dbFile' = entries'
    /\ secrets' = vaultFile
    /\ UNCHANGED <<vaultFile, clock, freedMax, freedNotMax, reads, pending>>
    /\ lastOp' = op

\* add: return console.error(chalk.red(t("errors.noContent")))
AddRejected(op) == Abort(op)

NewEntryLeaksPlaintext(id, text, tagsArg, enc, now) ==
    [id |-> id, content |-> Trim(text.s), tags |-> AddTags(tagsArg),
     timestamp |-> ToISO(now), encrypted |-> enc, usageCount |-> 0]

\* the object add pushes
NewEntry(id, text, tagsArg, enc, now) ==
    [id |-> id,
     content |-> IF enc THEN Sentinel ELSE Trim(text.s),
     tags |-> AddTags(tagsArg),
     timestamp |-> ToISO(now),
     encrypted |-> enc,
     usageCount |-> 0]

\* lines 106-133, for the password typed at the prompt and the salt and iv
\* that crypto.randomBytes returns (all three unused without -e)
AddCommit(text, tagsArg, enc, password, salt, iv) ==
    LET id == getNextId(dbFile)
    IN  /\ secrets' = IF enc
                      THEN Put(vaultFile, ToStr(id), encrypt(Trim(text.s), password, salt, iv))
                      ELSE vaultFile
        /\ vaultFile' = secrets'
        /\ entries' = Append(dbFile, NewEntry(id, text, tagsArg, enc, clock))
        /\ dbFile' = entries'
        /\ lastOp' = [Op("add", <<>>, password, "ok", FALSE) EXCEPT
                          !.newId = id,
                          !.reuse = IF id \in freedNotMax THEN "notmax"
                                    ELSE IF id \in freedMax THEN "max" ELSE "no"]
        /\ freedMax' = freedMax \ {id}
        /\ freedNotMax' = freedNotMax \ {id}
        /\ reads' = [k \in Ids(dbFile) \cup {id} |-> IF k = id THEN 0 ELSE reads[k]]
        /\ UNCHANGED <<clock, pending>>

\* mem add [text] -t tagsArg [-e]
Add(text, tagsArg, enc) ==
    /\ Len(dbFile) < MaxEntries
    /\ getNextId(dbFile) <= MaxId
    /\ IF ContentMissing(text)
       THEN AddRejected(Op("add", <<>>, "", "EmptyContent", TCallThrows))
       ELSE IF enc
            THEN \E password \in AddPasswords, salt \in Salts, iv \in IVs :
                     AddCommit(text, tagsArg, enc, password, salt, iv)
            ELSE AddCommit(text, tagsArg, enc, "", 0, 0)

\* db.data.entries.filter((e) => e.id !== parseInt(id))
DeleteFilter(es, idArg) ==
    SelectSeq(es, LAMBDA e : ~StrictEq(e.id, ParseInt(idArg)))

\* mem rm <id>
Delete(idArg) ==
    LET gone == Ids(dbFile) \ Ids(DeleteFilter(dbFile, idArg))
        top == {i \in gone : i = MaxOf(Ids(dbFile))}
    IN  /\ entries' = DeleteFilter(dbFile, idArg)
        /\ secrets' = Remove(vaultFile, idArg)
        /\ dbFile' = entries'
        /\ vaultFile' = secrets'
        /\ lastOp' = Op("delete", idArg, "", "ok", FALSE)
        /\ freedMax' = (freedMax \ gone) \cup top
        /\ freedNotMax' = (freedNotMax \ gone) \cup (gone \ top)
        /\ reads' = [k \in Ids(DeleteFilter(dbFile, idArg)) |-> reads[k]]
        /\ UNCHANGED <<clock, pending>>

(***************************************************************************)
(* get                                                                     *)
(***************************************************************************)
\* a get that starts the count again: usageCount = 1
TouchRestarts(e) == [e EXCEPT !.usageCount = 1]

\* a get that stamps the entry with the instant of its last use
GetCommitRestamps(i, op, display) ==
    /\ entries' = [dbFile EXCEPT ![i] =
                      [dbFile[i] EXCEPT !.usageCount = @ + 1, !.timestamp = ToISO(clock)]]
    /\ dbFile' = entries'
    /\ secrets' = vaultFile
    /\ lastOp' = [op EXCEPT !.shown = display]
    /\ reads' = [reads EXCEPT ![dbFile[i].id] = @ + 1]
    /\ UNCHANGED <<vaultFile, clock, freedMax, freedNotMax, pending>>

Touch(e) == [e EXCEPT !.usageCount = e.usageCount + 1]

\* entry.usageCount = (entry.usageCount || 0) + 1; await db.write(); the output
GetCommit(i, op, display) ==
    /\ entries' = [dbFile EXCEPT ![i] = Touch(dbFile[i])]
    /\ dbFile' = entries'
    /\ secrets' = vaultFile
    /\ lastOp' = [op EXCEPT !.shown = display]
    /\ reads' = [reads EXCEPT ![dbFile[i].id] = @ + 1]
    /\ UNCHANGED <<vaultFile, clock, freedMax, freedNotMax, pending>>

\* mem get <id>
Get(idArg) ==
    LET i == FindIndex(dbFile, idArg)
    IN  IF i = 0
        THEN Abort(Op("get", idArg, "", "NotFound", FALSE))
        ELSE /\ dbFile[i].usageCount < MaxUsage
             /\ IF dbFile[i].encrypted
                THEN IF TCallThrows
                     \* message: t("prompts.enterPassword") is evaluated to build the prompt
                     THEN Abort(Op("get", idArg, "", "Prompt", TRUE))
                     ELSE \E password \in Passwords, padOk \in BOOLEAN :
                          LET decrypted == decrypt(Lookup(vaultFile, idArg), password, padOk)
                          IN  IF Falsy(decrypted)
                              THEN Abort(Op("get", idArg, password, "DecryptionFailed", FALSE))
                              ELSE GetCommit(i, Op("get", idArg, password, "ok", FALSE),
                                             decrypted.text)
                ELSE GetCommit(i, Op("get", idArg, "", "ok", FALSE), dbFile[i].content)

(***************************************************************************)
(* edit                                                                    *)
(***************************************************************************)
\* answers.tags.split(",").map((t) => t.trim())
EditTags(tagsArg) ==
    LET f == Split(tagsArg, ",") IN [k \in 1..Len(f) |-> Trim(f[k])]

\* lines 278-294: the new cipher text or the new content, the new tags, the writes
EditCommit(i, idArg, op, content, tagsArg, newPass, salt, iv) ==
    /\ secrets' = IF dbFile[i].encrypted
                  THEN Put(vaultFile, idArg, encrypt(content, newPass, salt, iv))
                  ELSE vaultFile
    /\ vaultFile' = secrets'
    /\ entries' = [dbFile EXCEPT ![i] =
                      [dbFile[i] EXCEPT
                          !.content = IF dbFile[i].encrypted THEN @ ELSE content,
                          !.tags = EditTags(tagsArg)]]
    /\ dbFile' = entries'
    /\ lastOp' = [op EXCEPT !.content = content, !.tagsArg = tagsArg]
    /\ UNCHANGED <<clock, freedMax, freedNotMax, reads, pending>>

\* lines 263-294: the two input prompts and what follows them
EditPrompts(i, idArg, password) ==
    IF TCallThrows
    \* message: t("prompts.newContent") is evaluated to build the prompts
    THEN Abort(Op("edit", idArg, password, "Prompt", TRUE))
    ELSE \E content \in EditContents, tagsArg \in EditTagArgs,
            newPass \in Passwords, salt \in Salts, iv \in IVs :
             EditCommit(i, idArg, Op("edit", idArg, password, "ok", FALSE),
                        content, tagsArg, newPass, salt, iv)

\* mem edit <id>
Edit(idArg) ==
    LET i == FindIndex(dbFile, idArg)
    IN  IF i = 0
        \* return console.error(chalk.red(t("errors.notFound")))
        THEN Abort(Op("edit", idArg, "", "NotFound", TCallThrows))
        ELSE IF dbFile[i].encrypted
             THEN \E password \in Passwords, padOk \in BOOLEAN :
                  LET currentContent == decrypt(Lookup(vaultFile, idArg), password, padOk)
                  IN  IF Falsy(currentContent)
                      THEN Abort(Op("edit", idArg, password, "DecryptionFailed", FALSE))
                      ELSE EditPrompts(i, idArg, password)
             ELSE EditPrompts(i, idArg, "")

(***************************************************************************)
(* find                                                                    *)
(***************************************************************************)
\* mem find [query] [-d date]
Find(query, date) ==
    LET filterDate == FilterDate(date, clock)
        src == RegexSource(query)
        op == [Op("find", <<>>, "", "ok", FALSE) EXCEPT !.query = query, !.date = date]
    IN  IF RegexThrows(src)
        THEN Abort([op EXCEPT !.outcome = "BadRegex", !.threw = TRUE])
        ELSE LET results == SelectSeq(dbFile,
                                LAMBDA e : matchText(src, e) /\ matchDate(filterDate, e))
             IN  IF Len(results) = 0
                 \* return console.log(chalk.yellow(t("commands.find.noMatches")))
                 THEN Abort([op EXCEPT !.outcome = "NoMatches", !.threw = TCallThrows])
                 ELSE Abort([op EXCEPT !.results = results])

(***************************************************************************)
(* tags                                                                    *)
(***************************************************************************)
RECURSIVE AllTags(_)
\* entries.forEach(e => e.tags.forEach(...)): every tag of every entry, in order
AllTags(es) == IF es = <<>> THEN <<>> ELSE Head(es).tags \o AllTags(Tail(es))

\* a property key that is a canonical array index: "0", "7", "42", not "07"
IsArrayIndex(key) == Len(key) >= 1 /\ AllDigits(key) /\ (Len(key) = 1 \/ key[1] # "0")

RECURSIVE TagMap(_, _)
\* tagMap[t] = (tagMap[t] || 0) + 1 for each tag: the rows in the order the keys
\* were created
TagMap(tagMap, ts) ==
    IF ts = <<>> THEN tagMap
    ELSE LET tag == Head(ts)
             at == {i \in 1..Len(tagMap) : tagMap[i][1] = tag}
         IN  IF at = {}
             THEN TagMap(Append(tagMap, <<tag, 1>>), Tail(ts))
             ELSE TagMap([i \in 1..Len(tagMap) |->
                             IF i \in at THEN <<tag, tagMap[i][2] + 1>> ELSE tagMap[i]],
                         Tail(ts))

RECURSIVE AscendingIndex(_)
\* rows with array-index keys, in ascending numeric order of the key
AscendingIndex(rows) ==
    IF rows = <<>> THEN <<>>
    ELSE LET i == CHOOSE i \in 1..Len(rows) :
                      \A j \in 1..Len(rows) : DigitsVal(rows[i][1]) <= DigitsVal(rows[j][1])
         IN  <<rows[i]>> \o
             AscendingIndex(SubSeq(rows, 1, i - 1) \o SubSeq(rows, i + 1, Len(rows)))

\* Object.entries(tagMap): own keys that are array indices come first, ascending,
\* then the other keys in the order they were created
ObjectEntries(tagMap) ==
    AscendingIndex(SelectSeq(tagMap, LAMBDA row : IsArrayIndex(row[1])))
        \o SelectSeq(tagMap, LAMBDA row : ~IsArrayIndex(row[1]))

RECURSIVE SortByCount(_)
\* .sort((a, b) => b[1] - a[1]): descending count, stable
SortByCount(rows) ==
    IF rows = <<>> THEN <<>>
    ELSE LET i == CHOOSE i \in 1..Len(rows) :
                      /\ \A j \in 1..Len(rows) : rows[i][2] >= rows[j][2]
                      /\ \A j \in 1..(i - 1) : rows[j][2] < rows[i][2]
         IN  <<rows[i]>> \o
             SortByCount(SubSeq(rows, 1, i - 1) \o SubSeq(rows, i + 1, Len(rows)))

\* mem tags
Tags ==
    Abort([Op("tags", <<>>, "", "ok", FALSE) EXCEPT
              !.table = SortByCount(ObjectEntries(TagMap(<<>>, AllTags(dbFile))))])

\* time passes between two commands
Tick ==
    /\ clock < ClockStart + MaxTicks
    /\ clock' = clock + 1
    /\ UNCHANGED <<dbFile, vaultFile, entries, secrets, lastOp, freedMax, freedNotMax, reads,
                   pending>>

(***************************************************************************)
(* The store: every command but find and tags.                             *)
(***************************************************************************)
Next ==
    \/ \E text \in AddTexts, tagsArg \in AddTagArgs, enc \in BOOLEAN : Add(text, tagsArg, enc)
    \/ \E idArg \in IdArgs : Get(idArg)
    \/ \E idArg \in IdArgs : Edit(idArg)
    \/ \E idArg \in IdArgs : Delete(idArg)

Spec == Init /\ [][Next]_vars

(***************************************************************************)
(* Searching: add, find and the passing of time.                           *)
(***************************************************************************)
\* [text] of add: " ab", "B"
FindTexts == {Given(<<" ", "a", "b">>), Given(<<"B">>)}

\* --tags of add: the default "", and "b, c"
FindTagArgs == {<<>>, <<"b", ",", " ", "c">>}

\* [query] of find: the default "*", "b", "A*b", "z", "("
Queries ==
    {<<"*">>, <<"b">>, <<"A", "*", "b">>, <<"z">>, <<"(">>}

\* --date of find: none, "today", "Heute", "yesterday", "2026-02-10",
\* "11.02.2026", "2026-02-30", "foo"
DateArgs ==
    {Absent, Given(<<"t", "o", "d", "a", "y">>), Given(<<"H", "e", "u", "t", "e">>),
     Given(<<"y", "e", "s", "t", "e", "r", "d", "a", "y">>),
     Given(<<"2", "0", "2", "6", "-", "0", "2", "-", "1", "0">>),
     Given(<<"1", "1", ".", "0", "2", ".", "2", "0", "2", "6">>),
     Given(<<"2", "0", "2", "6", "-", "0", "2", "-", "3", "0">>),
     Given(<<"f", "o", "o">>)}

NextFind ==
    \/ /\ Len(dbFile) < MaxFindEntries
       /\ \E text \in FindTexts, tagsArg \in FindTagArgs : Add(text, tagsArg, FALSE)
    \/ \E query \in Queries, date \in DateArgs : Find(query, date)
    \/ Tick

SpecFind == Init /\ [][NextFind]_vars

(***************************************************************************)
(* The life of an entry: every command, and the passing of time.           *)
(***************************************************************************)
\* [text] of add: "a"
LifeTexts == {Given(<<"a">>)}

\* [query] of find: the default "*", "z"
LifeQueries == {<<"*">>, <<"z">>}

\* <id> of get, edit and delete: "100", "101"
LifeIdArgs == {<<"1", "0", "0">>, <<"1", "0", "1">>}

NextLife ==
    \/ /\ Len(dbFile) < MaxFindEntries
       /\ \E text \in LifeTexts, tagsArg \in AddTagArgs, enc \in BOOLEAN :
              Add(text, tagsArg, enc)
    \/ \E idArg \in LifeIdArgs : Get(idArg)
    \/ \E idArg \in LifeIdArgs : Edit(idArg)
    \/ \E idArg \in LifeIdArgs : Delete(idArg)
    \/ \E query \in LifeQueries : Find(query, Absent)
    \/ Tags
    \/ Tick

SpecLife == Init /\ [][NextLife]_vars

(***************************************************************************)
(* The two writes of add -e and of delete, one at a time: the process may  *)
(* end, or the second write may be rejected, after the first.              *)
(***************************************************************************)
\* add -e up to "await vault.write()" (lines 100-119)
AddVaultWrite(text, tagsArg, password, salt, iv) ==
    LET id == getNextId(dbFile)
    IN  /\ pending = Idle
        /\ Len(dbFile) < MaxEntries
        /\ id <= MaxId
        /\ ~ContentMissing(text)
        /\ secrets' = Put(vaultFile, ToStr(id), encrypt(Trim(text.s), password, salt, iv))
        /\ vaultFile' = secrets'
        /\ entries' = dbFile
        /\ pending' = [op |-> "add", id |-> id, text |-> text, tagsArg |-> tagsArg,
                       idArg |-> <<>>, password |-> password,
                       dbBefore |-> dbFile, vaultBefore |-> vaultFile]
        /\ lastOp' = [Op("add", <<>>, password, "Writing", FALSE) EXCEPT !.newId = id]
        /\ UNCHANGED <<dbFile, clock, freedMax, freedNotMax, reads>>

\* add -e from the push to "await db.write()" (lines 120-133)
AddDbWrite ==
    /\ pending.op = "add"
    /\ entries' = Append(dbFile,
                         NewEntry(pending.id, pending.text, pending.tagsArg, TRUE, clock))
    /\ dbFile' = entries'
    /\ secrets' = vaultFile
    /\ lastOp' = [Op("add", <<>>, pending.password, "ok", FALSE) EXCEPT
                      !.newId = pending.id,
                      !.reuse = IF pending.id \in freedNotMax THEN "notmax"
                                ELSE IF pending.id \in freedMax THEN "max" ELSE "no"]
    /\ freedMax' = freedMax \ {pending.id}
    /\ freedNotMax' = freedNotMax \ {pending.id}
    /\ reads' = [k \in Ids(dbFile) \cup {pending.id} |->
                     IF k = pending.id THEN 0 ELSE reads[k]]
    /\ pending' = Idle
    /\ UNCHANGED <<vaultFile, clock>>

\* a delete that writes the vault first
DeleteVaultFirst(idArg) ==
    /\ pending = Idle
    /\ entries' = DeleteFilter(dbFile, idArg)
    /\ secrets' = Remove(vaultFile, idArg)
    /\ vaultFile' = secrets'
    /\ pending' = [op |-> "delete", id |-> 0, text |-> Absent, tagsArg |-> <<>>,
                   idArg |-> idArg, password |-> "",
                   dbBefore |-> dbFile, vaultBefore |-> vaultFile]
    /\ lastOp' = Op("delete", idArg, "", "Writing", FALSE)
    /\ UNCHANGED <<dbFile, clock, freedMax, freedNotMax, reads>>

\* delete up to "await db.write()" (lines 329-331)
DeleteDbWrite(idArg) ==
    LET gone == Ids(dbFile) \ Ids(DeleteFilter(dbFile, idArg))
        top == {i \in gone : i = MaxOf(Ids(dbFile))}
    IN  /\ pending = Idle
        /\ entries' = DeleteFilter(dbFile, idArg)
        /\ secrets' = Remove(vaultFile, idArg)
        /\ dbFile' = entries'
        /\ pending' = [op |-> "delete", id |-> 0, text |-> Absent, tagsArg |-> <<>>,
                       idArg |-> idArg, password |-> "",
                       dbBefore |-> dbFile, vaultBefore |-> vaultFile]
        /\ lastOp' = Op("delete", idArg, "", "Writing", FALSE)
        /\ freedMax' = (freedMax \ gone) \cup top
        /\ freedNotMax' = (freedNotMax \ gone) \cup (gone \ top)
        /\ reads' = [k \in Ids(DeleteFilter(dbFile, idArg)) |-> reads[k]]
        /\ UNCHANGED <<vaultFile, clock>>

\* delete from "await vault.write()" on (lines 332-333)
DeleteVaultWrite ==
    /\ pending.op = "delete"
    /\ secrets' = Remove(vaultFile, pending.idArg)
    /\ vaultFile' = secrets'
    /\ entries' = dbFile
    /\ lastOp' = Op("delete", pending.idArg, "", "ok", FALSE)
    /\ pending' = Idle
    /\ UNCHANGED <<dbFile, clock, freedMax, freedNotMax, reads>>

\* the process ends between the two writes, or the second write is rejected:
\* the files stay as the first write left them
Stop ==
    /\ pending # Idle
    /\ entries' = dbFile
    /\ secrets' = vaultFile
    /\ lastOp' = [lastOp EXCEPT !.outcome = "Stopped", !.threw = TRUE]
    /\ pending' = Idle
    /\ UNCHANGED <<dbFile, vaultFile, clock, freedMax, freedNotMax, reads>>

NextSteps ==
    \/ \E text \in LifeTexts, tagsArg \in AddTagArgs, password \in AddPasswords,
          salt \in Salts, iv \in IVs : AddVaultWrite(text, tagsArg, password, salt, iv)
    \/ AddDbWrite
    \/ /\ pending = Idle
       /\ \E text \in LifeTexts, tagsArg \in AddTagArgs : Add(text, tagsArg, FALSE)
    \/ \E idArg \in IdArgs : DeleteDbWrite(idArg)
    \/ DeleteVaultWrite
    \/ Stop

SpecSteps == Init /\ [][NextSteps]_vars

(***************************************************************************)
(* decrypt on its own: any blob of hex runs and colons, or no blob.        *)
(***************************************************************************)
BlobTokens == {Colon, HexBytes(1), HexCipher("p", 1, 1, <<"a">>)}

\* encryptedData: undefined, or a string of up to MaxBlobLen runs and colons
BlobInputs ==
    {[defined |-> FALSE, blob |-> <<>>]} \cup
    {[defined |-> TRUE, blob |-> b] : b \in UNION {[1..n -> BlobTokens] : n \in 0..MaxBlobLen}}

InitDecrypt ==
    /\ dbFile = <<>>
    /\ vaultFile = EmptyVault
    /\ entries = dbFile
    /\ secrets = vaultFile
    /\ clock = ClockStart
    /\ \E rec \in BlobInputs : lastOp = [Op("input", <<>>, "", "ok", FALSE) EXCEPT !.blob = rec]
    /\ freedMax = {}
    /\ freedNotMax = {}
    /\ reads = EmptyReads
    /\ pending = Idle

\* decrypt(encryptedData, password) is called and returns
DecryptCall(password, padOk) ==
    LET r == decrypt(lastOp.blob, password, padOk)
    IN  /\ lastOp.op = "input"
        /\ lastOp' = [lastOp EXCEPT !.op = "decrypt", !.password = password,
                                    !.outcome = IF r.null THEN "null" ELSE "ok",
                                    !.shown = r.text]
        /\ UNCHANGED <<dbFile, vaultFile, entries, secrets, clock, freedMax, freedNotMax,
                       reads, pending>>

NextDecrypt == \E password \in Passwords, padOk \in BOOLEAN : DecryptCall(password, padOk)

SpecDecrypt == InitDecrypt /\ [][NextDecrypt]_vars

(***************************************************************************)
(* Counting tags: add and tags.                                            *)
(***************************************************************************)
\* --tags of add: the default "", "b,b", "b, 1", "1"
TagListArgs ==
    {<<>>, <<"b", ",", "b">>, <<"b", ",", " ", "1">>, <<"1">>}

NextTags ==
    \/ \E text \in LifeTexts, tagsArg \in TagListArgs : Add(text, tagsArg, FALSE)
    \/ Tags

SpecTags == Init /\ [][NextTags]_vars

(***************************************************************************)
(* Properties.                                                             *)
(***************************************************************************)
Encrypted(es) == {i \in 1..Len(es) : es[i].encrypted}

AddDone(op) == op.op = "add" /\ op.outcome = "ok"

\* the plain text the vault holds for entry id, <<>> when it holds none
VaultPlaintext(sec, id) ==
    IF ToStr(id) \in DOMAIN sec THEN sec[ToStr(id)][5].pt ELSE <<>>

\* C1: in every reachable state every entry whose encrypted flag is true has
\* the sentinel placeholder as its content, in db.json and in memory.
C1_EncryptedContentIsSentinel ==
    /\ \A i \in Encrypted(dbFile) : dbFile[i].content = Sentinel
    /\ \A i \in Encrypted(entries) : entries[i].content = Sentinel

\* an encrypted entry has just been added
C1_Witness ==
    /\ AddDone(lastOp)
    /\ lastOp.password \in AddPasswords
    /\ dbFile # <<>>
    /\ dbFile[Len(dbFile)].encrypted
    /\ VaultPlaintext(vaultFile, dbFile[Len(dbFile)].id) = <<"a">>

\* C2: after any sequence of completed commands the ids that have a vault
\* record are exactly the ids of the entries whose encrypted flag is true.
C2_VaultMatchesEncrypted ==
    DOMAIN vaultFile = {ToStr(dbFile[i].id) : i \in Encrypted(dbFile)}

\* C3: every add assigns 100 on an empty store and otherwise the maximum id
\* in the store plus one; so the new id is greater than every id in the
\* store, and the ids stay pairwise distinct.
C3_NextIdRule ==
    [][AddDone(lastOp') =>
          /\ Len(dbFile') = Len(dbFile) + 1
          /\ dbFile'[Len(dbFile')].id = lastOp'.newId
          /\ dbFile = <<>> => lastOp'.newId = 100
          /\ dbFile # <<>> => \E i \in 1..Len(dbFile) :
                                  /\ lastOp'.newId = dbFile[i].id + 1
                                  /\ \A j \in 1..Len(dbFile) : dbFile[j].id <= dbFile[i].id
          /\ \A i \in 1..Len(dbFile) : dbFile[i].id < lastOp'.newId
          /\ \A i, j \in 1..Len(dbFile') : i # j => dbFile'[i].id # dbFile'[j].id]_vars

\* an add after a delete: entry 100 is gone, 101 and 102 are there
C3_Witness ==
    /\ AddDone(lastOp)
    /\ lastOp.newId = 102
    /\ Ids(dbFile) = {101, 102}

\* C4, as claimed: an add never assigns an id whose latest deletion removed
\* an id that was not the maximum of the store.
C4_NonMaxFreedNeverReused ==
    AddDone(lastOp) => lastOp.reuse # "notmax"

\* C4, amended: an add assigns a freed id only when that id is greater than
\* every id in the store at the time of the add.
C4_FreedReusedOnlyAboveAll ==
    [][(AddDone(lastOp') /\ lastOp'.newId \in (freedMax \cup freedNotMax)) =>
          \A i \in 1..Len(dbFile) : dbFile[i].id < lastOp'.newId]_vars

\* an id that was not the maximum when it was deleted has been assigned again
C4_Witness ==
    AddDone(lastOp) /\ lastOp.reuse = "notmax"

\* the entry of the store that get and edit resolve idArg to: 0 when none
Target(es, op) == FindIndex(es, op.idArg)

\* C5: get on an existing encrypted entry ends either with the plain text
\* shown and the usage count one higher, the password being the one the
\* entry was encrypted with, or with DecryptionFailed and the usage count
\* unchanged, the password being another one.
C5_GetDecryptsThenCounts ==
    [][(lastOp'.op = "get" /\ Target(dbFile, lastOp') # 0
           /\ dbFile[Target(dbFile, lastOp')].encrypted) =>
          LET i == Target(dbFile, lastOp')
              blob == vaultFile[ToStr(dbFile[i].id)]
          IN  \/ /\ lastOp'.outcome = "ok"
                 /\ ~lastOp'.threw
                 /\ lastOp'.password = blob[5].pw
                 /\ lastOp'.shown = blob[5].pt
                 /\ dbFile'[i].usageCount = dbFile[i].usageCount + 1
              \/ /\ lastOp'.outcome = "DecryptionFailed"
                 /\ ~lastOp'.threw
                 /\ lastOp'.password # blob[5].pw
                 /\ dbFile'[i].usageCount = dbFile[i].usageCount]_vars

Recoverable == {"EmptyContent", "NotFound", "DecryptionFailed"}

\* C6: when add, get or edit ends with EmptyContent, NotFound or
\* DecryptionFailed, db.json and vault.json are what they were before the
\* command, and so is what the process holds in memory.
C6_ErrorsChangeNothing ==
    [][(lastOp'.op \in {"add", "get", "edit"} /\ lastOp'.outcome \in Recoverable) =>
          /\ dbFile' = dbFile
          /\ vaultFile' = vaultFile
          /\ entries' = dbFile
          /\ secrets' = vaultFile]_vars

\* an edit of an encrypted entry has ended with DecryptionFailed
C6_Witness ==
    /\ lastOp.op = "edit"
    /\ lastOp.outcome = "DecryptionFailed"
    /\ Target(dbFile, lastOp) # 0
    /\ dbFile[Target(dbFile, lastOp)].encrypted

\* C7: every command ends normally, with a result or a recoverable error;
\* none ends with an uncaught exception.
C7_NoUncaughtException ==
    ~lastOp.threw

\* the date term of the last find is one parseSearchDate does not recognise
Unrecognised(op) ==
    op.date.given /\ op.date.s # <<>> /\ ~parseSearchDate(op.date.s, clock).valid

\* C8: a find whose date term is not recognised never ends with a result
\* list, the entries filtered by text alone; it reports InvalidDateTerm.
C8_UnrecognisedDateReported ==
    (lastOp.op = "find" /\ Unrecognised(lastOp)) =>
        /\ lastOp.outcome # "ok"
        /\ lastOp.results = <<>>

\* the entries find is to return: those that match the pattern in content or
\* in a tag and, with a date filter, were created on the filter's day
Expected(es, op) ==
    SelectSeq(es, LAMBDA e :
        /\ \/ RegexTest(RegexSource(op.query), e.content)
           \/ \E k \in 1..Len(e.tags) : RegexTest(RegexSource(op.query), e.tags[k])
        /\ \/ ~op.date.given
           \/ /\ parseSearchDate(op.date.s, clock).valid
              /\ LocalDay(FromISO(e.timestamp)) = parseSearchDate(op.date.s, clock).day)

\* C9: find ends with a result, and the result is the subsequence of the
\* entries, in stored order, that match the pattern and the date filter.
C9_FindReturnsTheMatches ==
    (lastOp.op = "find" /\ ~RegexThrows(RegexSource(lastOp.query))) =>
        /\ lastOp.outcome = "ok"
        /\ ~lastOp.threw
        /\ lastOp.results = Expected(dbFile, lastOp)

\* C10: delete removes the entry the id argument resolves to and the vault
\* record of that entry's id, and nothing else; a get or an edit of the same
\* id right after it reports NotFound.
C10_DeleteRemovesEntryAndRecord ==
    [][/\ lastOp'.op = "delete" =>
             LET p == ParseInt(lastOp'.idArg)
                 kept == {i \in 1..Len(dbFile) : ~StrictEq(dbFile[i].id, p)}
             IN  /\ Ids(dbFile') = {dbFile[i].id : i \in kept}
                 /\ \A i \in kept : \E j \in 1..Len(dbFile') : dbFile'[j] = dbFile[i]
                 /\ DOMAIN vaultFile' = {k \in DOMAIN vaultFile : p.nan \/ k # ToStr(p.n)}
                 /\ \A k \in DOMAIN vaultFile' : vaultFile'[k] = vaultFile[k]
       /\ (lastOp.op = "delete" /\ lastOp'.op \in {"get", "edit"}
              /\ lastOp'.idArg = lastOp.idArg) =>
             (lastOp'.outcome = "NotFound" /\ ~lastOp'.threw)]_vars

(***************************************************************************)
(* C11: from the step that adds an entry to the step that deletes it, no   *)
(* command changes the entry's id, its timestamp or its encrypted flag:    *)
(* an entry found under the same id before and after a step has the same   *)
(* timestamp and flag, and only delete takes an entry out or moves one.    *)
(***************************************************************************)
SameIdentity(e, f) ==
    e.id = f.id /\ e.timestamp = f.timestamp /\ e.encrypted = f.encrypted

C11_IdentityIsImmutable ==
    [][/\ \A i \in 1..Len(dbFile), j \in 1..Len(dbFile') :
              dbFile[i].id = dbFile'[j].id => SameIdentity(dbFile[i], dbFile'[j])
       /\ lastOp'.op # "delete" =>
              /\ Len(dbFile') >= Len(dbFile)
              /\ \A i \in 1..Len(dbFile) : SameIdentity(dbFile[i], dbFile'[i])]_vars

\* an entry added at an earlier instant has been shown twice, and edit has been
\* tried on it
C11_Witness ==
    /\ lastOp.op = "edit"
    /\ Target(dbFile, lastOp) # 0
    /\ dbFile[Target(dbFile, lastOp)].usageCount = MaxUsage
    /\ FromISO(dbFile[Target(dbFile, lastOp)].timestamp) < clock

(***************************************************************************)
(* C12: usageCount is 0 when the entry is added, and in every state it is  *)
(* the number of gets that showed the entry since it was added; no other   *)
(* command and no failed get changes it.                                   *)
(***************************************************************************)
C12_UsageCountsTheGets ==
    /\ DOMAIN reads = Ids(dbFile)
    /\ \A i \in 1..Len(dbFile) : dbFile[i].usageCount = reads[dbFile[i].id]
    /\ AddDone(lastOp) => dbFile[Len(dbFile)].usageCount = 0

\* the second get of an entry has shown it
C12_Witness ==
    /\ lastOp.op = "get"
    /\ lastOp.outcome = "ok"
    /\ Target(dbFile, lastOp) # 0
    /\ dbFile[Target(dbFile, lastOp)].usageCount = MaxUsage

(***************************************************************************)
(* C13: when add, edit or delete is stopped part-way, or one of its writes *)
(* fails, both files are exactly as they were before the command: the two  *)
(* writes of a command take effect together or not at all.                 *)
(***************************************************************************)
C13_WritesAreAllOrNothing ==
    [][(pending # Idle /\ lastOp'.outcome = "Stopped") =>
           (dbFile' = pending.dbBefore /\ vaultFile' = pending.vaultBefore)]_vars

(***************************************************************************)
(* C14: tags lists every tag with the number of times it occurs in the     *)
(* tag lists of all entries (a tag repeated in one entry counts each       *)
(* time), in descending order of count, tags of equal count in the order   *)
(* in which they are first met.                                            *)
(***************************************************************************)
Occurrences(ts, tag) == Cardinality({k \in 1..Len(ts) : ts[k] = tag})

FirstMet(ts, tag) == CHOOSE k \in 1..Len(ts) : ts[k] = tag /\ \A j \in 1..(k - 1) : ts[j] # tag

C14_TagsCountedAndOrdered ==
    lastOp.op = "tags" =>
        LET ts == AllTags(dbFile)
            table == lastOp.table
        IN  /\ {table[r][1] : r \in 1..Len(table)} = {ts[k] : k \in 1..Len(ts)}
            /\ \A r \in 1..Len(table) : table[r][2] = Occurrences(ts, table[r][1])
            /\ \A q, r \in 1..Len(table) :
                   q < r =>
                       \/ table[q][2] > table[r][2]
                       \/ /\ table[q][2] = table[r][2]
                          /\ FirstMet(ts, table[q][1]) < FirstMet(ts, table[r][1])

(***************************************************************************)
(* C15: an edit of an existing entry (the password of an encrypted one     *)
(* accepted) replaces the entry's tags with exactly the new list, each tag *)
(* trimmed; it replaces the content of an entry that is not encrypted; for *)
(* an encrypted entry it replaces only the vault text of that id and       *)
(* leaves the placeholder; every other entry and vault record is as        *)
(* before.                                                                 *)
(***************************************************************************)
C15_EditReplacesTagsAndContent ==
    [][(lastOp'.op = "edit" /\ Target(dbFile, lastOp') # 0
           /\ lastOp'.outcome # "DecryptionFailed") =>
          LET i == Target(dbFile, lastOp')
              key == ToStr(dbFile[i].id)
          IN  /\ lastOp'.outcome = "ok"
              /\ ~lastOp'.threw
              /\ Len(dbFile') = Len(dbFile)
              /\ dbFile'[i].tags = EditTags(lastOp'.tagsArg)
              /\ dbFile'[i] = [dbFile[i] EXCEPT
                                  !.tags = dbFile'[i].tags, !.content = dbFile'[i].content]
              /\ \A j \in 1..Len(dbFile) : j # i => dbFile'[j] = dbFile[j]
              /\ IF dbFile[i].encrypted
                 THEN /\ dbFile'[i].content = dbFile[i].content
                      /\ VaultPlaintext(vaultFile', dbFile[i].id) = lastOp'.content
                      /\ DOMAIN vaultFile' = DOMAIN vaultFile
                      /\ \A k \in DOMAIN vaultFile : k # key => vaultFile'[k] = vaultFile[k]
                 ELSE /\ dbFile'[i].content = lastOp'.content
                      /\ vaultFile' = vaultFile]_vars

(***************************************************************************)
(* C16: in every state the real content of every entry (its stored content *)
(* when not encrypted, the vault text otherwise) is a non-empty trimmed    *)
(* string; add and edit end with the new content accepted or with          *)
(* EmptyContent (edit of an encrypted entry also with DecryptionFailed),   *)
(* and get of an encrypted entry ends with the text shown or, the password *)
(* being wrong, with DecryptionFailed.                                     *)
(***************************************************************************)
RealContent(e) == IF e.encrypted THEN VaultPlaintext(vaultFile, e.id) ELSE e.content

C16_ContentNonEmptyAndRetrievable ==
    /\ \A i \in 1..Len(dbFile) :
           RealContent(dbFile[i]) # <<>> /\ Trim(RealContent(dbFile[i])) = RealContent(dbFile[i])
    /\ lastOp.op = "add" => lastOp.outcome \in {"ok", "EmptyContent"}
    /\ (lastOp.op = "edit" /\ Target(dbFile, lastOp) # 0) =>
           lastOp.outcome \in {"ok", "EmptyContent", "DecryptionFailed"}
    /\ (lastOp.op = "get" /\ Target(dbFile, lastOp) # 0) =>
           lastOp.outcome \in {"ok", "DecryptionFailed"}

(***************************************************************************)
(* C17: decrypt returns the failure signal, and does not throw, for every  *)
(* blob that does not split on ":" into exactly three fields: fewer        *)
(* fields, more than three fields, or no blob at all (undefined).          *)
(***************************************************************************)
C17_DecryptFailsOnWrongShape ==
    (lastOp.op = "decrypt"
        /\ (~lastOp.blob.defined \/ Len(Split(lastOp.blob.blob, Colon)) # 3)) =>
        (lastOp.outcome = "null" /\ ~lastOp.threw)

(***************************************************************************)
(* C18: in every state, the one between the two writes of an add or a      *)
(* delete included, every encrypted entry of the entries file has a record *)
(* under its id in the vault file.                                         *)
(***************************************************************************)
C18_EncryptedEntryHasVaultRecord ==
    \A i \in Encrypted(dbFile) : Lookup(vaultFile, ToStr(dbFile[i].id)).defined

\* between the two writes of a delete: the encrypted entry is gone from the
\* entries file, its record is still in the vault file, and another encrypted
\* entry is in the store
C18_Witness ==
    /\ pending.op = "delete"
    /\ Encrypted(dbFile) # {}
    /\ \E e \in {pending.dbBefore[i] : i \in Encrypted(pending.dbBefore)} :
           /\ e.id \notin Ids(dbFile)
           /\ Lookup(vaultFile, ToStr(e.id)).defined

====
